---- MODULE Spec2Model ----
(***************************************************************************)
(* Model of verifier.py, the openelections CSV verifier.                   *)
(*                                                                         *)
(* main() walks the argument list; for every path it builds a Verifier     *)
(* (__new__ picks the subclass from the file name, __init__ runs the path  *)
(* sanity check and derives state and county from the file name) and, when *)
(* the verifier is ready, scans the file: verifyColumns on the header and  *)
(* then verifyCounty, verifyOffice, verifyDistrict, verifyCandidate and    *)
(* verifyParty on every row.  Everything the program prints is appended to *)
(* out; an exception nobody catches ends the program (pc = "crashed").     *)
(*                                                                         *)
(* Text the code takes apart (paths, counties, districts, candidates) is a *)
(* sequence of one-character strings; text it only compares (offices,      *)
(* parties, column names) is a TLA+ string.                                 *)
(***************************************************************************)
EXTENDS Integers, Sequences, FiniteSets, TLC

VARIABLES
    paths,      \* args.paths: sequence of [path, exists]
    i,          \* position of main's for loop in paths
    pc,         \* where the program is
    verifier,   \* the object Verifier(path) returned
    disk,       \* what has been read from the opened files: [idx, header, rows]
    row,        \* the row the reader yielded last
    out,        \* the lines printed so far
    err         \* the uncaught exception, "" while there is none

vars == <<paths, i, pc, verifier, disk, row, out, err>>

----------------------------------------------------------------------------
(* Bounds of the model *)

MaxPaths == 2
MaxRows == 2
MaxComponents == 6
MaxDistrictLen == 3
MaxCandidatePieces == 3

----------------------------------------------------------------------------
(* Text *)

S_general == <<"g", "e", "n", "e", "r", "a", "l">>
S_primary == <<"p", "r", "i", "m", "a", "r", "y">>
S_special == <<"s", "p", "e", "c", "i", "a", "l">>
S_precinct == <<"p", "r", "e", "c", "i", "n", "c", "t">>
S_matrix == <<"m", "a", "t", "r", "i", "x">>
S_delimiter == <<"_", "_">>
S_csv == <<".", "c", "s", "v">>
S_x == <<"x">>
S_ms == <<"m", "s">>
S_or == <<"o", "r">>
S_MS == <<"M", "S">>
S_date == <<"2", "0", "1", "6", "0", "5", "1", "7">>
S_multnomah == <<"m", "u", "l", "t", "n", "o", "m", "a", "h">>
S_hood_river == <<"h", "o", "o", "d", "_", "r", "i", "v", "e", "r">>
S_mcDonald == <<"m", "c", "D", "o", "n", "a", "l", "d">>
S_HINDS == <<"H", "I", "N", "D", "S">>
S_precinct_csv == <<"p", "r", "e", "c", "i", "n", "c", "t", ".", "c", "s", "v">>
S_county_csv == <<"c", "o", "u", "n", "t", "y", ".", "c", "s", "v">>
S_matrix_csv == <<"m", "a", "t", "r", "i", "x", ".", "c", "s", "v">>
S_precinct_txt == <<"p", "r", "e", "c", "i", "n", "c", "t", ".", "t", "x", "t">>
S_notes_csv == <<"n", "o", "t", "e", "s", ".", "c", "s", "v">>
S_primary_dir == <<"p", "r", "i", "m", "a", "r", "y", "/">>
S_Multnomah == <<"M", "u", "l", "t", "n", "o", "m", "a", "h">>
S_lane == <<"l", "a", "n", "e">>
S_Write_in == <<"W", "r", "i", "t", "e", "-", "i", "n">>
S_Under_Votes == <<"U", "n", "d", "e", "r", " ", "V", "o", "t", "e", "s">>
S_Over_Votes == <<"O", "v", "e", "r", " ", "V", "o", "t", "e", "s">>
S_Total == <<"T", "o", "t", "a", "l">>
S_writein == <<"w", "r", "i", "t", "e", "i", "n">>
S_undervotes == <<"u", "n", "d", "e", "r", "v", "o", "t", "e", "s">>
S_overvotes == <<"o", "v", "e", "r", "v", "o", "t", "e", "s">>
S_total == <<"t", "o", "t", "a", "l">>
S_WriteIn == <<"W", "r", "i", "t", "e", "I", "n">>
S_John_Smith == <<"J", "o", "h", "n", " ", "S", "m", "i", "t", "h">>
S_wrtie_in == <<"w", "r", "t", "i", "e", " ", "i", "n">>
S_Write_ins == <<"W", "r", "i", "t", "e", "-", "i", "n", "s">>
S_Overvote == <<"O", "v", "e", "r", "v", "o", "t", "e">>

LowerLetters ==
    <<"a", "b", "c", "d", "e", "f", "g", "h", "i", "j", "k", "l", "m",
      "n", "o", "p", "q", "r", "s", "t", "u", "v", "w", "x", "y", "z">>

UpperLetters ==
    <<"A", "B", "C", "D", "E", "F", "G", "H", "I", "J", "K", "L", "M",
      "N", "O", "P", "Q", "R", "S", "T", "U", "V", "W", "X", "Y", "Z">>

Digits == {"0", "1", "2", "3", "4", "5", "6", "7", "8", "9"}

Whitespace == {" "}

IsLower(c) == \E k \in 1..26 : LowerLetters[k] = c
IsUpper(c) == \E k \in 1..26 : UpperLetters[k] = c
IsLetter(c) == IsLower(c) \/ IsUpper(c)

LetterIndex(c) == CHOOSE k \in 1..26 : LowerLetters[k] = c \/ UpperLetters[k] = c

LowerChar(c) == IF IsUpper(c) THEN LowerLetters[LetterIndex(c)] ELSE c
UpperChar(c) == IF IsLower(c) THEN UpperLetters[LetterIndex(c)] ELSE c

\* str.lower()
PyLower(s) == [k \in 1..Len(s) |-> LowerChar(s[k])]

\* str.title(): a letter that follows a letter is lower-cased, any other
\* letter is upper-cased, everything else is kept
PyTitle(s) ==
    [k \in 1..Len(s) |->
        IF k > 1 /\ IsLetter(s[k-1]) THEN LowerChar(s[k]) ELSE UpperChar(s[k])]

\* str.replace("_", " ")
ReplaceUnderscores(s) == [k \in 1..Len(s) |-> IF s[k] = "_" THEN " " ELSE s[k]]

\* sub in s
Contains(sub, s) ==
    \E k \in 1..(Len(s) - Len(sub) + 1) : SubSeq(s, k, k + Len(sub) - 1) = sub

\* the first position at which sub occurs in s, 0 when it does not
Find(sub, s) ==
    IF Contains(sub, s)
    THEN CHOOSE k \in 1..(Len(s) - Len(sub) + 1) :
            /\ SubSeq(s, k, k + Len(sub) - 1) = sub
            /\ \A m \in 1..(k - 1) : SubSeq(s, m, m + Len(sub) - 1) # sub
    ELSE 0

\* str.split(sep): cut at every occurrence of sep, scanning from the left
RECURSIVE PySplit(_, _)
PySplit(s, sep) ==
    LET k == Find(sep, s) IN
    IF k = 0 THEN <<s>>
    ELSE <<SubSeq(s, 1, k - 1)>> \o PySplit(SubSeq(s, k + Len(sep), Len(s)), sep)

\* the position of the last c in s, 0 when there is none
LastIndexOf(c, s) ==
    IF \E k \in 1..Len(s) : s[k] = c
    THEN CHOOSE k \in 1..Len(s) : s[k] = c /\ \A m \in (k + 1)..Len(s) : s[m] # c
    ELSE 0

\* os.path.basename(path)
Basename(path) == SubSeq(path, LastIndexOf("/", path) + 1, Len(path))

\* os.path.splitext(path)[1]: from the last dot of the last path component,
\* unless only dots come before it in that component
SplitextExt(path) ==
    LET name == Basename(path)
        d == LastIndexOf(".", name) IN
    IF d = 0 \/ \A m \in 1..(d - 1) : name[m] = "." THEN <<>>
    ELSE SubSeq(name, d, Len(name))

----------------------------------------------------------------------------
(* Class attributes of Verifier *)

validColumns ==
    {"county", "precinct", "office", "district", "party", "candidate", "votes", "notes"}

requiredColumns ==
    {"county", "precinct", "office", "district", "party", "candidate", "votes"}

validOffices ==
    {"President", "U.S. Senate", "U.S. House", "Governor", "State Senate",
     "State House", "Attorney General", "Secretary of State", "State Treasurer"}

officesWithDistricts == {"U.S. House", "State Senate", "State House"}

pseudocandidates == {S_Write_in, S_Under_Votes, S_Over_Votes, S_Total}

normalizedPseudocandidates == {S_writein, S_undervotes, S_overvotes, S_total}

----------------------------------------------------------------------------
(* Printed lines *)

\* A printed line: its text, with the values formatted into it
Line(text) ==
    [text |-> text, path |-> <<>>, cols |-> {}, office |-> "", cand |-> <<>>, row |-> <<>>]

\* printError(text, row): the message, then the row
printError(line, r) == <<line, [Line("row") EXCEPT !.row = <<r>>]>>

\* printError(text): row defaults to [], which is not printed
printErrorNoRow(line) == <<line>>

----------------------------------------------------------------------------
(* Row checks *)

\* verifyCounty
verifyCounty(v, r) ==
    LET normalisedCounty == PyTitle(r.county) IN
    (IF normalisedCounty # v.filenameCounty
     THEN printError(Line("ERROR: County doesn't match filename"), r) ELSE <<>>)
    \o
    (IF r.county # normalisedCounty
     THEN printError(Line("ERROR: Use title case for the county"), r) ELSE <<>>)

\* verifyOffice: self.self raises AttributeError before anything is printed
verifyOffice(v, r) ==
    IF r.office \notin validOffices
    THEN [raised |-> "AttributeError: object has no attribute 'self'", prints |-> <<>>]
    ELSE [raised |-> "", prints |-> <<>>]

\* str.strip() as int() applies it
RECURSIVE StripLeft(_)
StripLeft(s) ==
    IF s # <<>> /\ Head(s) \in Whitespace THEN StripLeft(Tail(s)) ELSE s

RECURSIVE StripRight(_)
StripRight(s) ==
    IF s # <<>> /\ s[Len(s)] \in Whitespace
    THEN StripRight(SubSeq(s, 1, Len(s) - 1)) ELSE s

\* int(numberStr) succeeds: optional blanks around an optional sign and
\* decimal digits, single underscores allowed between digits
PyIntParses(s) ==
    LET t == StripRight(StripLeft(s))
        b == IF t # <<>> /\ Head(t) \in {"+", "-"} THEN Tail(t) ELSE t IN
    /\ b # <<>>
    /\ \A k \in 1..Len(b) :
          \/ b[k] \in Digits
          \/ /\ b[k] = "_"
             /\ 1 < k /\ k < Len(b)
             /\ b[k-1] \in Digits /\ b[k+1] \in Digits

\* verifyInteger
verifyInteger(numberStr) == PyIntParses(numberStr)

\* verifyDistrict without the exemption of district x in Mississippi
verifyDistrict_noMsExemption(v, r) ==
    IF r.office \in officesWithDistricts
    THEN IF r.district = <<>>
         THEN printError([Line("ERROR: Office requires a district")
                             EXCEPT !.office = r.office], r)
         ELSE IF PyLower(r.district) = S_x
         THEN printError(Line("ERROR: District must be an integer"), r)
         ELSE IF ~verifyInteger(r.district)
         THEN printError(Line("ERROR: District must be an integer"), r)
         ELSE <<>>
    ELSE <<>>

\* verifyDistrict
verifyDistrict(v, r) ==
    IF r.office \in officesWithDistricts
    THEN IF r.district = <<>>
         THEN printError([Line("ERROR: Office requires a district")
                             EXCEPT !.office = r.office], r)
         ELSE IF PyLower(r.district) = S_x
         THEN IF v.filenameState = S_ms
              THEN <<>>
              ELSE printError(Line("ERROR: District must be an integer"), r)
         ELSE IF ~verifyInteger(r.district)
         THEN printError(Line("ERROR: District must be an integer"), r)
         ELSE <<>>
    ELSE <<>>

\* charsRE.sub('', candidate): drop every run of characters outside A-Za-z
StripNonLetters(s) == SelectSeq(s, IsLetter)

\* j2len of SequenceMatcher.find_longest_match: the length of the matching
\* run that ends at a[ia] and b[jb]
RECURSIVE j2len(_, _, _, _)
j2len(a, b, ia, jb) ==
    IF ia = 0 \/ jb = 0 THEN 0
    ELSE IF a[ia] # b[jb] THEN 0
    ELSE j2len(a, b, ia - 1, jb - 1) + 1

\* SequenceMatcher(None, a, b).find_longest_match(0, len(a), 0, len(b)).size
\* (b is shorter than 200, so no element is junk or popular)
find_longest_match_size(a, b) ==
    LET sizes == {0} \cup {j2len(a, b, ia, jb) : ia \in 1..Len(a), jb \in 1..Len(b)} IN
    CHOOSE k \in sizes : \A m \in sizes : m <= k

\* verifyCandidate with the comparison match.size >= 4
verifyCandidate_atLeast4(v, r) ==
    LET candidate == r.candidate
        normalizedCandidate == PyLower(StripNonLetters(candidate))
        misspelled == printError([Line("ERROR: Misspelled pseudocandidate")
                                     EXCEPT !.cand = candidate], r) IN
    IF candidate \notin pseudocandidates
    THEN IF normalizedCandidate \in normalizedPseudocandidates
         THEN misspelled
         ELSE IF \E npc \in normalizedPseudocandidates :
                    find_longest_match_size(normalizedCandidate, npc) >= 4
         THEN misspelled
         ELSE <<>>
    ELSE <<>>

\* verifyCandidate with the comparison match.size > 2
verifyCandidate_moreThan2(v, r) ==
    LET candidate == r.candidate
        normalizedCandidate == PyLower(StripNonLetters(candidate))
        misspelled == printError([Line("ERROR: Misspelled pseudocandidate")
                                     EXCEPT !.cand = candidate], r) IN
    IF candidate \notin pseudocandidates
    THEN IF normalizedCandidate \in normalizedPseudocandidates
         THEN misspelled
         ELSE IF \E npc \in normalizedPseudocandidates :
                    find_longest_match_size(normalizedCandidate, npc) > 2
         THEN misspelled
         ELSE <<>>
    ELSE <<>>

\* verifyCandidate
verifyCandidate(v, r) ==
    LET candidate == r.candidate
        normalizedCandidate == PyLower(StripNonLetters(candidate))
        misspelled == printError([Line("ERROR: Misspelled pseudocandidate")
                                     EXCEPT !.cand = candidate], r) IN
    IF candidate \notin pseudocandidates
    THEN IF normalizedCandidate \in normalizedPseudocandidates
         THEN misspelled
         ELSE IF \E npc \in normalizedPseudocandidates :
                    find_longest_match_size(normalizedCandidate, npc) > 4
         THEN misspelled
         ELSE <<>>
    ELSE <<>>

\* Verifier.verifyParty
Verifier_verifyParty(r) ==
    IF r.candidate \notin pseudocandidates /\ r.party = ""
    THEN printError(Line("ERROR: Party missing"), r)
    ELSE <<>>

\* PrimaryPrecinctVerifier.verifyParty
PrimaryPrecinctVerifier_verifyParty(r) ==
    IF r.party = ""
    THEN printError(Line("ERROR: Primary results must include a party for every row"), r)
    ELSE <<>>

\* self.verifyParty(row): the method of the object's class; only
\* PrimaryPrecinctVerifier overrides it
verifyParty(v, r) ==
    IF v.cls = "PrimaryPrecinctVerifier"
    THEN PrimaryPrecinctVerifier_verifyParty(r)
    ELSE Verifier_verifyParty(r)

\* verifyColumns
verifyColumns(columns) ==
    LET invalidColumns == columns \ validColumns
        missingColumns == requiredColumns \ columns IN
    [prints |->
        (IF invalidColumns # {}
         THEN printErrorNoRow([Line("ERROR: Invalid columns") EXCEPT !.cols = invalidColumns])
         ELSE <<>>)
        \o
        (IF missingColumns # {}
         THEN printErrorNoRow([Line("ERROR: Missing columns") EXCEPT !.cols = missingColumns])
         ELSE <<>>),
     ok |-> missingColumns = {}]

----------------------------------------------------------------------------
(* Construction of a Verifier *)

\* What Verifier(path) is when __new__ falls off its end
NoneObject ==
    [cls |-> "NoneType", path |-> <<>>, ready |-> FALSE,
     hasFilename |-> FALSE, filename |-> <<>>,
     hasStateCounty |-> FALSE, filenameState |-> <<>>, filenameCounty |-> <<>>]

\* Verifier.__new__(Verifier, path): the class of the object it returns
Verifier__new__(path) ==
    LET filename == Basename(path) IN
    IF Contains(S_general, filename)
    THEN IF Contains(S_precinct, filename)
         THEN "GeneralPrecinctVerifier" ELSE "GeneralVerifier"
    ELSE IF Contains(S_primary, filename)
    THEN IF Contains(S_precinct, filename)
         THEN "PrimaryPrecinctVerifier" ELSE "PrimaryVerifier"
    ELSE IF Contains(S_special, filename) /\ Contains(S_precinct, filename)
    THEN "SpecialPrecinctVerifier"
    ELSE "NoneType"

\* pathSanityCheck: the exception it raises ("" for none) and what it prints
pathSanityCheck(p) ==
    IF ~p.exists
    THEN [raised |-> "Can't find file at path", prints |-> <<>>]
    ELSE IF SplitextExt(p.path) # S_csv
    THEN [raised |-> "Filename does not end in .csv", prints |-> <<>>]
    ELSE [raised |-> "", prints |-> <<[Line("==>") EXCEPT !.path = p.path]>>]

\* deriveStateCountyFromFilename with the replace("_", " ") left out
deriveStateCountyFromFilename_noReplace(filename) ==
    LET components == PySplit(filename, S_delimiter) IN
    IF Len(components) = 5
    THEN <<components[2], PyTitle(components[4])>>
    ELSE <<>>

\* deriveStateCountyFromFilename: a pair, or the empty string
deriveStateCountyFromFilename(filename) ==
    LET components == PySplit(filename, S_delimiter) IN
    IF Len(components) = 5
    THEN <<components[2], PyTitle(ReplaceUnderscores(components[4]))>>
    ELSE <<>>

\* Verifier.__init__ on a fresh object of class cls: the object and what the
\* constructor prints.  Every exception of the try block is caught and printed.
Verifier__init__(cls, p) ==
    LET self0 == [NoneObject EXCEPT !.cls = cls, !.path = p.path]
        sanity == pathSanityCheck(p)
        self1 == [self0 EXCEPT !.hasFilename = TRUE, !.filename = Basename(p.path)]
        derived == deriveStateCountyFromFilename(self1.filename) IN
    IF sanity.raised # ""
    THEN [obj |-> self0,
          prints |-> <<[Line("ERROR: " \o sanity.raised) EXCEPT !.path = p.path]>>]
    ELSE IF Len(derived) # 2
    THEN [obj |-> self1,
          prints |-> sanity.prints
                     \o <<Line("ERROR: not enough values to unpack (expected 2, got 0)")>>]
    ELSE [obj |-> [self1 EXCEPT !.hasStateCounty = TRUE,
                                !.filenameState = derived[1],
                                !.filenameCounty = derived[2],
                                !.ready = TRUE],
          prints |-> sanity.prints]

\* Verifier(path): type.__call__ runs __init__ only on an instance of Verifier
NewVerifier(p) ==
    LET cls == Verifier__new__(p.path) IN
    IF cls = "NoneType" THEN [obj |-> NoneObject, prints |-> <<>>]
    ELSE Verifier__init__(cls, p)

----------------------------------------------------------------------------
(* Inputs *)

RECURSIVE Join(_, _)
Join(components, sep) ==
    IF Len(components) = 0 THEN <<>>
    ELSE IF Len(components) = 1 THEN components[1]
    ELSE components[1] \o sep \o Join(Tail(components), sep)

FileName(state, election, last) ==
    Join(<<S_date, state, election, S_multnomah, last>>, S_delimiter)

P_primary_precinct == FileName(S_or, S_primary, S_precinct_csv)
P_primary_county == FileName(S_or, S_primary, S_county_csv)
P_general_precinct == FileName(S_ms, S_general, S_precinct_csv)
P_general_county == S_primary_dir \o FileName(S_or, S_general, S_county_csv)
P_special_precinct == FileName(S_or, S_special, S_precinct_csv)
P_matrix == FileName(S_or, S_general, S_matrix_csv)
P_txt == FileName(S_or, S_general, S_precinct_txt)
P_three_parts == Join(<<S_date, S_or, S_general \o S_csv>>, S_delimiter)
P_notes == S_notes_csv

\* The command-line arguments the model draws from
PathSamples ==
    {[path |-> q, exists |-> TRUE] :
        q \in {P_primary_precinct, P_primary_county, P_general_precinct,
               P_general_county, P_special_precinct, P_matrix, P_txt,
               P_three_parts, P_notes}}
    \cup {[path |-> q, exists |-> FALSE] : q \in {P_general_precinct, P_notes}}

\* The headers a file may declare
HeaderSamples ==
    {requiredColumns,
     requiredColumns \cup {"notes", "turnout"},
     requiredColumns \ {"district"},
     (requiredColumns \ {"district"}) \cup {"turnout"}}

MkRow(county, office, district, candidate, party) ==
    [county |-> county, office |-> office, district |-> district,
     candidate |-> candidate, party |-> party]

\* The rows a file may hold
RowSamples ==
    {MkRow(S_Multnomah, "President", <<>>, S_John_Smith, "DEM"),
     MkRow(S_lane, "State House", S_x, S_WriteIn, ""),
     MkRow(S_Multnomah, "Mayor", <<>>, S_John_Smith, "DEM"),
     MkRow(S_Multnomah, "Governor", <<>>, S_Total, "")}

NoRow == MkRow(<<>>, "", <<>>, <<>>, "")

----------------------------------------------------------------------------
(* main *)

Init ==
    /\ paths \in UNION {[1..n -> PathSamples] : n \in 1..MaxPaths}
    /\ i = 1
    /\ pc = "loop"
    /\ verifier = NoneObject
    /\ disk = <<>>
    /\ row = NoRow
    /\ out = <<>>
    /\ err = ""

\* for path in args.paths: verifier = Verifier(path)
Construct ==
    /\ pc = "loop"
    /\ i <= Len(paths)
    /\ LET made == NewVerifier(paths[i]) IN
        /\ verifier' = made.obj
        /\ out' = out \o made.prints
    /\ pc' = "check"
    /\ UNCHANGED <<paths, i, disk, row, err>>

\* the for loop is exhausted: main returns
Finish ==
    /\ pc = "loop"
    /\ i > Len(paths)
    /\ pc' = "done"
    /\ UNCHANGED <<paths, i, verifier, disk, row, out, err>>

\* if verifier.ready and "matrix" not in verifier.filename
CheckReady ==
    /\ pc = "check"
    /\ IF verifier.cls = "NoneType"
       THEN /\ pc' = "crashed"
            /\ err' = "AttributeError: 'NoneType' object has no attribute 'ready'"
            /\ UNCHANGED i
       ELSE IF verifier.ready /\ ~Contains(S_matrix, verifier.filename)
       THEN /\ pc' = "open"
            /\ UNCHANGED <<i, err>>
       ELSE /\ pc' = "loop"
            /\ i' = i + 1
            /\ UNCHANGED err
    /\ UNCHANGED <<paths, verifier, disk, row, out>>

\* verify() -> parseFileAtPath: open the file, read the header, verifyColumns
OpenFile ==
    /\ pc = "open"
    /\ \E fieldnames \in HeaderSamples :
        LET checked == verifyColumns(fieldnames) IN
        /\ disk' = Append(disk, [idx |-> i, header |-> fieldnames, rows |-> <<>>])
        /\ out' = out \o checked.prints
        /\ IF checked.ok
           THEN pc' = "rows" /\ UNCHANGED i
           ELSE pc' = "loop" /\ i' = i + 1
    /\ UNCHANGED <<paths, verifier, row, err>>

\* for row in self.reader: the reader yields one more row
ReadRow ==
    /\ pc = "rows"
    /\ Len(disk[Len(disk)].rows) < MaxRows
    /\ \E r \in RowSamples :
        /\ row' = r
        /\ disk' = [disk EXCEPT ![Len(disk)].rows = Append(@, r)]
    /\ pc' = "county"
    /\ UNCHANGED <<paths, i, verifier, out, err>>

\* for row in self.reader: the reader is exhausted
EndOfFile ==
    /\ pc = "rows"
    /\ pc' = "loop"
    /\ i' = i + 1
    /\ UNCHANGED <<paths, verifier, disk, row, out, err>>

VerifyCounty ==
    /\ pc = "county"
    /\ out' = out \o verifyCounty(verifier, row)
    /\ pc' = "office"
    /\ UNCHANGED <<paths, i, verifier, disk, row, err>>

VerifyOffice ==
    /\ pc = "office"
    /\ LET res == verifyOffice(verifier, row) IN
        /\ out' = out \o res.prints
        /\ IF res.raised # ""
           THEN pc' = "crashed" /\ err' = res.raised
           ELSE pc' = "district" /\ UNCHANGED err
    /\ UNCHANGED <<paths, i, verifier, disk, row>>

VerifyDistrict ==
    /\ pc = "district"
    /\ out' = out \o verifyDistrict(verifier, row)
    /\ pc' = "candidate"
    /\ UNCHANGED <<paths, i, verifier, disk, row, err>>

VerifyCandidate ==
    /\ pc = "candidate"
    /\ out' = out \o verifyCandidate(verifier, row)
    /\ pc' = "party"
    /\ UNCHANGED <<paths, i, verifier, disk, row, err>>

VerifyParty ==
    /\ pc = "party"
    /\ out' = out \o verifyParty(verifier, row)
    /\ pc' = "rows"
    /\ UNCHANGED <<paths, i, verifier, disk, row, err>>

Next ==
    \/ Construct
    \/ Finish
    \/ CheckReady
    \/ OpenFile
    \/ ReadRow
    \/ EndOfFile
    \/ VerifyCounty
    \/ VerifyOffice
    \/ VerifyDistrict
    \/ VerifyCandidate
    \/ VerifyParty

Spec == Init /\ [][Next]_vars

----------------------------------------------------------------------------
(* The constructor alone, on file names of one to MaxComponents components *)

S_county == <<"c", "o", "u", "n", "t", "y">>
S_txt == <<".", "t", "x", "t">>

\* What the k-th component of a file name is drawn from
ComponentChoices(k) ==
    CASE k = 1 -> {S_date}
      [] k = 2 -> {S_or, S_ms, S_MS}
      [] k = 3 -> {S_general, S_primary, S_special}
      [] k = 4 -> {S_multnomah, S_hood_river, S_mcDonald, S_HINDS}
      [] k = 5 -> {S_precinct, S_county}
      [] OTHER -> {S_precinct}

FilenameComponents ==
    UNION {{c \in [1..n -> UNION {ComponentChoices(k) : k \in 1..n}] :
                \A k \in 1..n : c[k] \in ComponentChoices(k)} : n \in 1..MaxComponents}

MakePath(components, ext) == Join(components, S_delimiter) \o ext

InitFilename ==
    /\ \E components \in FilenameComponents, ext \in {S_csv, S_txt}, exists \in BOOLEAN :
          paths = <<[path |-> MakePath(components, ext), exists |-> exists]>>
    /\ i = 1
    /\ pc = "loop"
    /\ verifier = NoneObject
    /\ disk = <<>>
    /\ row = NoRow
    /\ out = <<>>
    /\ err = ""

NextFilename ==
    \/ Construct
    \/ CheckReady

SpecFilename == InitFilename /\ [][NextFilename]_vars

----------------------------------------------------------------------------
(* The office and district checks alone, on one row of a precinct file *)

\* All texts of at most n characters of alphabet
TextsUpTo(alphabet, n) == UNION {[1..k -> alphabet] : k \in 0..n}

DistrictAlphabet == {"x", "X", "5", "_", " ", "a"}

\* The program at a check of the first row of a file, with the header check
\* and the row's earlier checks behind it
AtRow(p, r, position, printed) ==
    LET made == NewVerifier(p) IN
    /\ paths = <<p>>
    /\ i = 1
    /\ pc = position
    /\ verifier = made.obj
    /\ disk = <<[idx |-> 1, header |-> requiredColumns, rows |-> <<r>>]>>
    /\ row = r
    /\ out = made.prints \o verifyColumns(requiredColumns).prints
                \o verifyCounty(made.obj, r) \o printed
    /\ err = ""

InitDistrict ==
    \E state \in {S_ms, S_or, S_MS},
       office \in validOffices \cup {"Mayor", ""},
       district \in TextsUpTo(DistrictAlphabet, MaxDistrictLen) :
        AtRow([path |-> FileName(state, S_general, S_precinct_csv), exists |-> TRUE],
              MkRow(S_Multnomah, office, district, S_John_Smith, "DEM"),
              "office", <<>>)

NextDistrict ==
    \/ VerifyOffice
    \/ VerifyDistrict

SpecDistrict == InitDistrict /\ [][NextDistrict]_vars

----------------------------------------------------------------------------
(* The candidate check alone, on candidates put together from word pieces *)

S_Write == <<"W", "r", "i", "t", "e">>
S_write == <<"w", "r", "i", "t", "e">>
S_wrtie == <<"w", "r", "t", "i", "e">>
S_in == <<"i", "n">>
S_Under == <<"U", "n", "d", "e", "r">>
S_Over == <<"O", "v", "e", "r">>
S_Votes == <<"V", "o", "t", "e", "s">>
S_votes == <<"v", "o", "t", "e", "s">>

CandidatePieces ==
    {S_Write, S_write, S_wrtie, <<"-">>, <<" ">>, S_in, S_Total, S_total,
     <<"s">>, S_Under, S_Over, S_Votes, S_votes}

RECURSIVE Concat(_)
Concat(pieces) ==
    IF pieces = <<>> THEN <<>> ELSE Head(pieces) \o Concat(Tail(pieces))

CandidateTexts ==
    {Concat(ps) : ps \in UNION {[1..k -> CandidatePieces] : k \in 0..MaxCandidatePieces}}
    \cup {S_WriteIn, S_John_Smith, S_Write_ins, S_Overvote}

InitCandidate ==
    \E candidate \in CandidateTexts, party \in {"", "DEM"} :
        AtRow([path |-> P_general_precinct, exists |-> TRUE],
              MkRow(S_Multnomah, "President", <<>>, candidate, party),
              "candidate", <<>>)

NextCandidate ==
    \/ VerifyCandidate
    \/ VerifyParty

SpecCandidate == InitCandidate /\ [][NextCandidate]_vars

----------------------------------------------------------------------------
(* Properties *)

\* The lines of out whose text is one of texts
LinesWith(texts) == SelectSeq(out, LAMBDA l : l.text \in texts)

\* The file at position k has been opened
Opened(k) == \E d \in 1..Len(disk) : disk[d].idx = k

\* Main has constructed the verifier of the path at position k
Constructed(k) == k < i \/ (k = i /\ pc # "loop")

\* A file name that no selection rule of the variant selector matches
Unselected(filename) ==
    /\ ~Contains(S_general, filename)
    /\ ~Contains(S_primary, filename)
    /\ ~(Contains(S_special, filename) /\ Contains(S_precinct, filename))

\* C1: a path whose file name matches none of the selection rules is a
\* silent no-op: no error is raised, nothing is printed or verified for it,
\* and main goes on to the later paths.
C1_UnselectedIsSilentNoOp ==
    \A k \in 1..Len(paths) :
        (Unselected(Basename(paths[k].path)) /\ Constructed(k)) =>
            /\ ~(k = i /\ pc = "crashed")
            /\ err = ""
            /\ ~Opened(k)

\* C2: a row whose office is not one of the nine recognized offices gets an
\* "invalid office" finding and the scan goes on with the district check of
\* the same row.
C2_InvalidOfficeIsReported ==
    (row # NoRow /\ row.office \notin validOffices /\ pc \notin {"county", "office"}) =>
        /\ pc # "crashed"
        /\ \E k \in 1..Len(out) :
              out[k].text = "ERROR: Invalid office" /\ out[k].office = row.office

PartyTexts ==
    {"ERROR: Party missing", "ERROR: Primary results must include a party for every row"}

\* The party finding of the row just scanned is the last thing printed
PartyFindingPrinted ==
    /\ Len(out) >= 2
    /\ out[Len(out)].row = <<row>>
    /\ out[Len(out) - 1].text \in PartyTexts

\* The file was selected as PrimaryFile or PrimaryPrecinctFile
IsPrimaryVariant(filename) ==
    ~Contains(S_general, filename) /\ Contains(S_primary, filename)

\* C3: in a PrimaryFile or PrimaryPrecinctFile every row with an empty party
\* gets a party finding, whatever its candidate; in the other variants a row
\* gets one exactly when party is empty and the candidate is not one of the
\* pseudocandidate literals.
C3_PartyCheckPerVariant ==
    (pc = "rows" /\ disk # <<>> /\ disk[Len(disk)].rows # <<>>) =>
        (PartyFindingPrinted <=>
            IF IsPrimaryVariant(verifier.filename)
            THEN row.party = ""
            ELSE row.party = "" /\ row.candidate \notin pseudocandidates)

\* The check that follows each row check
NextCheck(position) ==
    CASE position = "county" -> "office"
      [] position = "office" -> "district"
      [] position = "district" -> "candidate"
      [] position = "candidate" -> "party"
      [] OTHER -> "rows"

\* C4: with a required column missing, a missing-columns finding is printed
\* and no row of the file is scanned; with none missing, extra columns give
\* only an invalid-columns finding and every row runs through the five row
\* checks.
C4_SchemaGate ==
    [][/\ pc = "open" =>
            LET header == disk'[Len(disk')].header
                missing == requiredColumns \ header
                invalid == header \ validColumns
                invalidLine == [Line("ERROR: Invalid columns") EXCEPT !.cols = invalid]
                missingLine == [Line("ERROR: Missing columns") EXCEPT !.cols = missing] IN
            IF missing # {}
            THEN /\ pc' = "loop"
                 /\ out'[Len(out')] = missingLine
            ELSE /\ pc' = "rows"
                 /\ out' = IF invalid # {} THEN Append(out, invalidLine) ELSE out
       /\ pc \in {"county", "office", "district", "candidate", "party"} =>
            pc' = NextCheck(pc)
      ]_vars

\* A path that fails the set-up of its file: file missing, extension not
\* .csv, or a file name from which state and county cannot be derived
SetupError(p) ==
    \/ ~p.exists
    \/ SplitextExt(p.path) # S_csv
    \/ Len(PySplit(Basename(p.path), S_delimiter)) # 5

SetupErrorTexts ==
    {"ERROR: Can't find file at path", "ERROR: Filename does not end in .csv",
     "ERROR: not enough values to unpack (expected 2, got 0)"}

\* C6: a file-level set-up error on one path is caught and printed, the file
\* is left out of verification, and main goes on to the later paths.
C6_SetupErrorIsIsolated ==
    \A k \in 1..Len(paths) :
        (SetupError(paths[k]) /\ Constructed(k)) =>
            /\ ~(k = i /\ pc = "crashed")
            /\ LinesWith(SetupErrorTexts) # <<>>
            /\ ~Opened(k)

\* What the office check is to print for a row
ClaimedOfficeFindings(r) ==
    IF r.office \notin validOffices
    THEN printError([Line("ERROR: Invalid office") EXCEPT !.office = r.office], r)
    ELSE <<>>

\* The findings of one row, in the order county, office, district, candidate, party
ClaimedRowFindings(v, r) ==
    verifyCounty(v, r) \o ClaimedOfficeFindings(r) \o verifyDistrict(v, r)
        \o verifyCandidate(v, r) \o verifyParty(v, r)

RECURSIVE ClaimedRowsOutput(_, _)
ClaimedRowsOutput(v, rows) ==
    IF rows = <<>> THEN <<>>
    ELSE ClaimedRowFindings(v, Head(rows)) \o ClaimedRowsOutput(v, Tail(rows))

\* The output of the file at position k: header line or set-up error, schema
\* findings, then the findings of the rows in read order
ClaimedFileOutput(k) ==
    LET made == NewVerifier(paths[k]) IN
    made.prints
    \o (IF Opened(k)
        THEN LET d == CHOOSE d \in 1..Len(disk) : disk[d].idx = k IN
             verifyColumns(disk[d].header).prints
                \o ClaimedRowsOutput(made.obj, disk[d].rows)
        ELSE <<>>)

RECURSIVE ClaimedOutput(_)
ClaimedOutput(k) ==
    IF k = 0 THEN <<>> ELSE ClaimedOutput(k - 1) \o ClaimedFileOutput(k)

\* C9: the output is ordered file by file in the order of the paths; within a
\* file the schema findings precede the row findings, rows are reported in
\* read order and the findings of a row come in the order county, office,
\* district, candidate, party, none dropped.
C9_EmissionOrder ==
    pc \in {"done", "crashed"} =>
        out = ClaimedOutput(IF i > Len(paths) THEN Len(paths) ELSE i)

----------------------------------------------------------------------------
(* Properties of the constructor (SpecFilename) *)

\* The verifier of the only path has been constructed from a path that
\* passes the sanity check
ConstructedFrom(components) ==
    /\ pc # "loop"
    /\ verifier.cls # "NoneType"
    /\ paths[1].exists
    /\ paths[1].path = MakePath(components, S_csv)

UnpackErrorLine == Line("ERROR: not enough values to unpack (expected 2, got 0)")

\* C5 (amended): for a file name of exactly 5 components the verifier's state
\* is component[1] verbatim and its county is component[3] with underscores
\* replaced by spaces and title-cased; for any other number of components
\* the construction fails: the error is printed, state and county are never
\* set, the verifier is not ready and the file is never opened.
C5_FilenameMetadata ==
    \A components \in FilenameComponents :
        ConstructedFrom(components) =>
            IF Len(components) = 5
            THEN /\ verifier.ready
                 /\ verifier.hasStateCounty
                 /\ verifier.filenameState = components[2]
                 /\ verifier.filenameCounty = PyTitle(ReplaceUnderscores(components[4]))
            ELSE /\ ~verifier.ready
                 /\ ~verifier.hasStateCounty
                 /\ out[Len(out)] = UnpackErrorLine
                 /\ pc # "open"

\* C5 witness: 20160517__ms__general__hood_river__precinct.csv gives state
\* ms and county Hood River
C5_Witness ==
    /\ ConstructedFrom(<<S_date, S_ms, S_general, S_hood_river, S_precinct>>)
    /\ verifier.ready
    /\ verifier.filenameState = <<"m", "s">>
    /\ verifier.filenameCounty = <<"H", "o", "o", "d", " ", "R", "i", "v", "e", "r">>

\* C5 as stated: for any other number of components the construction yields
\* the empty state and the empty county and the file stays verifiable.
C5_AsStated ==
    \A components \in FilenameComponents :
        ConstructedFrom(components) =>
            IF Len(components) = 5
            THEN /\ verifier.filenameState = components[2]
                 /\ verifier.filenameCounty = PyTitle(ReplaceUnderscores(components[4]))
            ELSE /\ verifier.ready
                 /\ verifier.hasStateCounty
                 /\ verifier.filenameState = <<>>
                 /\ verifier.filenameCounty = <<>>

----------------------------------------------------------------------------
(* Properties of the district check (SpecDistrict) *)

DistrictFindings ==
    LinesWith({"ERROR: Office requires a district", "ERROR: District must be an integer"})

\* C7: a row gets a district finding if and only if its office is U.S. House,
\* State Senate or State House and its district is empty, or is x or X in a
\* file whose state is not ms, or is neither x nor an integer; district x or
\* X gets no finding for state ms and "must be an integer" for any other.
C7_DistrictCheck ==
    pc \in {"candidate", "crashed"} =>
        LET isX == row.district \in {<<"x">>, <<"X">>}
            districted == row.office \in {"U.S. House", "State Senate", "State House"} IN
        /\ Len(DistrictFindings) <= 1
        /\ DistrictFindings # <<>> <=>
              /\ districted
              /\ \/ row.district = <<>>
                 \/ isX /\ verifier.filenameState # S_ms
                 \/ ~isX /\ ~verifyInteger(row.district)
        /\ (districted /\ isX) =>
              IF verifier.filenameState = S_ms
              THEN DistrictFindings = <<>>
              ELSE DistrictFindings = <<Line("ERROR: District must be an integer")>>

\* C7 witness: State House with district X in a file of state or
C7_Witness ==
    /\ pc = "candidate"
    /\ row.office = "State House"
    /\ row.district = <<"X">>
    /\ verifier.filenameState = S_or
    /\ DistrictFindings = <<Line("ERROR: District must be an integer")>>

----------------------------------------------------------------------------
(* Properties of the candidate check (SpecCandidate) *)

CandidateFindings == LinesWith({"ERROR: Misspelled pseudocandidate"})

\* a and b have a common contiguous run of more than n characters
SharesRunLongerThan(a, b, n) ==
    \E ia \in 1..Len(a), jb \in 1..Len(b), k \in (n + 1)..Len(b) :
        /\ ia + k - 1 <= Len(a)
        /\ jb + k - 1 <= Len(b)
        /\ SubSeq(a, ia, ia + k - 1) = SubSeq(b, jb, jb + k - 1)

\* C8: the candidate check prints at most one finding per row, and prints it
\* exactly when the candidate is not one of the four literals and its
\* normalized form equals a reserved token or shares a run of more than 4
\* characters with one; the literals and John Smith get none, WriteIn one.
C8_CandidateCheck ==
    pc \in {"party", "rows"} =>
        LET normalized == PyLower(StripNonLetters(row.candidate))
            tokens == {S_writein, S_undervotes, S_overvotes, S_total}
            literals == {S_Write_in, S_Under_Votes, S_Over_Votes, S_Total} IN
        /\ Len(CandidateFindings) <= 1
        /\ Len(CandidateFindings) = 1 <=>
              /\ row.candidate \notin literals
              /\ \/ normalized \in tokens
                 \/ \E token \in tokens : SharesRunLongerThan(normalized, token, 4)
        /\ row.candidate \in literals => CandidateFindings = <<>>
        /\ row.candidate = S_WriteIn => Len(CandidateFindings) = 1
        /\ row.candidate = S_John_Smith => CandidateFindings = <<>>

\* C8 witness: WriteIn has been checked and reported
C8_Witness ==
    /\ pc = "party"
    /\ row.candidate = S_WriteIn
    /\ CandidateFindings =
          <<[Line("ERROR: Misspelled pseudocandidate") EXCEPT !.cand = S_WriteIn]>>

\* C10 (amended): the matcher with its threshold of more than 4 does not
\* catch the transposition "wrtie in" (normalized wrtiein, which has no run
\* of more than 4 letters in common with a reserved token): the row gets no
\* finding, while "writein" gets one.
C10_TranspositionNotCaught ==
    pc \in {"party", "rows"} =>
        /\ row.candidate = S_wrtie_in => CandidateFindings = <<>>
        /\ row.candidate = S_writein => Len(CandidateFindings) = 1

\* C10 witness: "wrtie in" has been checked and nothing was reported
C10_Witness ==
    /\ pc = "party"
    /\ row.candidate = S_wrtie_in
    /\ CandidateFindings = <<>>

\* C10 as stated: "wrtie in" gets a misspelled-pseudocandidate finding, just
\* as "writein" does.
C10_AsStated ==
    pc \in {"party", "rows"} =>
        /\ row.candidate = S_wrtie_in => Len(CandidateFindings) = 1
        /\ row.candidate = S_writein => Len(CandidateFindings) = 1

====
